---- MODULE Spec2Model ----
(***************************************************************************)
(* Model of the Engine algorithm caches of src/libstate/engine/engine.cpp: *)
(* Algorithm_Cache_Impl<T> (get, add, destructor), the four               *)
(* Engine::prototype_* acquisition methods, the four Engine::add_algorithm *)
(* registration methods, Engine::initialize, Engine::Engine and            *)
(* Engine::~Engine.                                                        *)
(*                                                                         *)
(* Objects on the heap are numbered: instances 1..MaxCalls, caches (each   *)
(* with the mutex it was constructed with) 1..MaxCache.  0 is the null     *)
(* pointer.  delete is counted per instance, saturating at 2 ("destroyed   *)
(* more than once").  Undefined behaviour (a call through a null cache     *)
(* pointer, a second delete of one object, a read of a destroyed object)   *)
(* is a choice between the process aborting (engine = "aborted") and the   *)
(* step carrying on with its effect (engine = "corrupt"); nothing is known *)
(* of the program after either, so no step follows them.                   *)
(***************************************************************************)
EXTENDS Integers, FiniteSets, Sequences, TLC

\* ----------------------------------------------------------------- bounds
NThreads == 2      \* caller threads
MaxCalls == 4      \* initialize / acquire_P / register_P calls ever started

\* ------------------------------------------------------------- vocabulary
NULL     == 0
NoThread == 0
Threads  == 1..NThreads
\* A call constructs at most one instance, and initialize four caches.
Inst     == 1..MaxCalls
MaxCache == 4 * MaxCalls

\* The four primitive kinds, in the order initialize constructs their caches.
KindSeq == << "bc", "sc", "hf", "mac" >>
Kinds   == { KindSeq[j] : j \in 1..Len(KindSeq) }
KindIdx(k) == CHOOSE j \in 1..Len(KindSeq) : KindSeq[j] = k

\* Parsed requests (SCAN_Name) and their canonical strings, the cache keys.
\* "sha1" and "SHA-1" are logically equal requests; "SHA-1" is another name
\* of the algorithm that calls itself "SHA-160".  The same names serve every
\* kind.
Requests == { "sha1", "SHA-1", "SHA-160", "NoSuch" }
Names    == { "SHA-1", "SHA-160", "NoSuch" }
NoReq    == "none"

\* SCAN_Name::as_string: the canonical string of a request.
as_string(r) == IF r = "sha1" THEN "SHA-1" ELSE r

\* find_P(request, af), a function of the request: the names it can
\* construct an instance for and the name that instance reports.
Registry     == { "SHA-1", "SHA-160" }
FoundName(n) == "SHA-160"

\* The names of the instances callers construct for add_algorithm.
InstNames == { "SHA-160" }

VARIABLES
  engine,      \* "alive" | "destroyed" | "aborted" | "corrupt"
  cache_of,    \* [Kinds -> 0..MaxCache]: Engine::cache_of_bc/sc/hf/mac
  made,        \* number of Mutex_Factory::make calls so far
  mappings,    \* [Kinds -> set of [name, inst]]: the current cache's map
  mutex,       \* [Kinds -> Threads \cup {NoThread}]: holder of the cache's mutex
  nextId,      \* number of instances allocated so far
  iname,       \* [Inst -> Names]: what instance->name() reports
  ikind,       \* [Inst -> Kinds]: the primitive type of the instance
  destroyed,   \* [Inst -> 0..2]: times the instance was deleted (2 = more than once)
  pc,          \* [Threads -> "idle" | "get_locked" | "search" | "add_locked"]
  op,          \* [Threads -> "acquire" | "register" | "null" | "none"]
  kind,        \* [Threads -> Kinds]: the primitive kind of the call
  req,         \* [Threads -> Requests \cup {NoReq}]: the request of acquire_P
  algo,        \* [Threads -> Inst \cup {NULL}]: the local / parameter algo
  views,       \* SUBSET Inst: instances a caller was handed a view of and holds
  calls,       \* calls started so far
  kindsUsed,   \* number of kinds callers have used so far
  searches,    \* [Kinds -> [Names -> Nat]]: find_P invocations since initialize
  acquires,    \* [Kinds -> [Names -> Nat]]: acquire_P calls since initialize
  present,     \* [Kinds -> SUBSET Names]: names an acquire_P returned present for
  registered,  \* SUBSET Kinds: kinds register_P inserted into since initialize
  hitBefore,   \* [Threads -> BOOLEAN]: the call began after a present result
  adds,        \* [Inst -> 0..2]: times the instance was inserted by add
  superseded   \* instances replaced in a map by another instance

vars == << engine, cache_of, made, mappings, mutex, nextId, iname, ikind, destroyed,
           pc, op, kind, req, algo, views, calls, kindsUsed, searches,
           acquires, present, registered, hitBefore, adds, superseded >>

heapVars  == << nextId, iname, ikind, destroyed, adds, superseded >>
histVars  == << searches, acquires, present, registered >>
localVars == << op, kind, req, algo, hitBefore >>

\* ---------------------------------------------------------------- helpers
Sat2(n) == IF n > 2 THEN 2 ELSE n

\* Faulty variant of EntriesOf: the key is not compared.
EntriesOf_AnyKey(m, name) == m

\* Entries of map m under key name.
EntriesOf(m, name) == { e \in m : e.name = name }

\* search_map(mappings, name): the mapped pointer, or the null result.
search_map(m, name) ==
  IF EntriesOf(m, name) # {} THEN (CHOOSE e \in EntriesOf(m, name) : TRUE).inst
  ELSE NULL

\* Faulty variants of MapStore: the assignment is lost; the old entry is kept beside
\* the new one.
MapStore_Lost(m, name, a) == m
MapStore_Dup(m, name, a) == m \cup { [name |-> name, inst |-> a] }

\* Faulty variant of MapStore: an existing entry is erased and not rewritten.
MapStore_Erase(m, name, a) ==
  IF EntriesOf(m, name) # {} THEN m \ EntriesOf(m, name)
  ELSE m \cup { [name |-> name, inst |-> a] }

\* mappings[name] = algo
MapStore(m, name, a) == (m \ EntriesOf(m, name)) \cup { [name |-> name, inst |-> a] }

\* Faulty variant of Deleted: the superseded instance is not deleted.
Deleted_Leak(d, old) == d

\* if(mappings.find(name) != mappings.end()) delete mappings[name];
\* with old the pointer mapped under name (null when there is none).
Deleted(d, old) == IF old # NULL THEN [d EXCEPT ![old] = Sat2(@ + 1)] ELSE d

\* Faulty variant of MutexOf: one make() result is given to all four caches.
MutexOf_Shared(k) == KindSeq[1]

\* The mutex of the cache of kind k: initialize constructs each cache with
\* the result of a mf.make() call of its own.  Mutexes are named by the kind
\* of the cache they were made for.
MutexOf(k) == k

\* Mutex_Holder lock(mutex): its constructor waits for the mutex and takes
\* it, its destructor releases it at the end of get and of add.
LockFree(k) == mutex[MutexOf(k)] = NoThread
Locked(mx, k, t) == [mx EXCEPT ![MutexOf(k)] = t]

\* Faulty variant of Released: the mutex stays held after the call.
Released_Kept(mx, k) == mx

Released(mx, k) == [mx EXCEPT ![MutexOf(k)] = NoThread]

\* Faulty variant of AfterNullCheck: the pointer is not tested.
AfterNullCheck_NoCheck(a) == "add_locked"

\* add: if(!algo) return; otherwise on to Mutex_Holder lock(mutex).
AfterNullCheck(a) == IF a = NULL THEN "idle" ELSE "add_locked"

\* Faulty variant of AfterGet: the result of get is returned whatever it is.
AfterGet_NoSearch(a) == "idle"

\* prototype_P after get: if(algo) return algo; otherwise the full search.
AfterGet(a) == IF a # NULL THEN "idle" ELSE "search"

Idle == \A t \in Threads : pc[t] = "idle"

\* Callers are interchangeable: a new call is carried by the first idle thread.
FirstIdle(t) == pc[t] = "idle" /\ \A u \in Threads : u < t => pc[u] # "idle"

\* The four kinds have the same code: callers call the methods of two of
\* them, and take a kind into use only after the kinds declared before it.
CallerKinds == { "bc", "sc" }
MayUse(k) == k \in CallerKinds /\ KindIdx(k) <= kindsUsed + 1
Use(k) == IF KindIdx(k) > kindsUsed THEN KindIdx(k) ELSE kindsUsed

\* A caller on thread t starts a call of kind k.
Starts(t, k) ==
  /\ engine = "alive"
  /\ FirstIdle(t)
  /\ calls < MaxCalls
  /\ MayUse(k)
  /\ calls' = calls + 1
  /\ kindsUsed' = Use(k)

\* ------------------------------------------------------------------- Init
\* Engine::Engine(): the four cache pointers are null.
Init ==
  /\ engine = "alive"
  /\ cache_of = [k \in Kinds |-> NULL]
  /\ made = 0
  /\ mappings = [k \in Kinds |-> {}]
  /\ mutex = [k \in Kinds |-> NoThread]
  /\ nextId = 0
  /\ iname = [i \in Inst |-> "SHA-160"]
  /\ ikind = [i \in Inst |-> "bc"]
  /\ destroyed = [i \in Inst |-> 0]
  /\ pc = [t \in Threads |-> "idle"]
  /\ op = [t \in Threads |-> "none"]
  /\ kind = [t \in Threads |-> "bc"]
  /\ req = [t \in Threads |-> NoReq]
  /\ algo = [t \in Threads |-> NULL]
  /\ views = {}
  /\ calls = 0
  /\ kindsUsed = 0
  /\ searches = [k \in Kinds |-> [n \in Names |-> 0]]
  /\ acquires = [k \in Kinds |-> [n \in Names |-> 0]]
  /\ present = [k \in Kinds |-> {}]
  /\ registered = {}
  /\ hitBefore = [t \in Threads |-> FALSE]
  /\ adds = [i \in Inst |-> 0]
  /\ superseded = {}

\* ------------------------------------------------------- Engine lifecycle
\* Engine::initialize: four new caches, each constructed with the mutex a
\* mf.make() call returns; the pointers are assigned without looking at
\* their old values, so caches of an earlier initialize become unreachable.
Initialize ==
  /\ engine = "alive"
  /\ Idle
  /\ calls < MaxCalls
  /\ calls' = calls + 1
  /\ cache_of' = [k \in Kinds |-> made + KindIdx(k)]
  /\ made' = made + 4
  /\ mappings' = [k \in Kinds |-> {}]
  /\ mutex' = [k \in Kinds |-> NoThread]
  /\ searches' = [k \in Kinds |-> [n \in Names |-> 0]]
  /\ acquires' = [k \in Kinds |-> [n \in Names |-> 0]]
  /\ present' = [k \in Kinds |-> {}]
  /\ registered' = {}
  /\ UNCHANGED << engine, pc, views, kindsUsed >>
  /\ UNCHANGED heapVars
  /\ UNCHANGED localVars

\* Number of map entries, over the caches the engine points to, that hold i.
OwnedCount(i) ==
  Cardinality({ x \in Kinds \X Names :
                  /\ cache_of[x[1]] # NULL
                  /\ [name |-> x[2], inst |-> i] \in mappings[x[1]] })

\* The destructor would delete an object that is already destroyed, or one
\* object twice.
DoubleDelete == \E i \in Inst : OwnedCount(i) > 0 /\ destroyed[i] + OwnedCount(i) > 1

\* Engine::~Engine: delete of each cache pointer (a null pointer is a no-op);
\* ~Algorithm_Cache_Impl deletes every mapped pointer, then its mutex.
Destroy ==
  /\ engine = "alive"
  /\ Idle
  /\ \/ /\ engine' = IF DoubleDelete THEN "corrupt" ELSE "destroyed"
        /\ destroyed' = [i \in Inst |-> Sat2(destroyed[i] + OwnedCount(i))]
        /\ mappings' = [k \in Kinds |-> {}]
     \/ /\ DoubleDelete
        /\ engine' = "aborted"
        /\ UNCHANGED << mappings, destroyed >>
  /\ UNCHANGED << cache_of, made, mutex, pc, views, calls, kindsUsed,
                  nextId, iname, ikind, adds, superseded >>
  /\ UNCHANGED histVars
  /\ UNCHANGED localVars

\* ------------------------------------------------------------------ calls
\* prototype_P or add_algorithm of kind k on an engine whose cache_of_P is
\* null: cache_of_P->get(...) and cache_of_P->add(...) go through a null
\* pointer.  The process aborts, or the call carries on and comes back.
NullDeref(t, k) ==
  /\ Starts(t, k)
  /\ cache_of[k] = NULL
  /\ engine' \in {"aborted", "corrupt"}
  /\ kind' = [kind EXCEPT ![t] = k]
  /\ op' = [op EXCEPT ![t] = "null"]
  /\ UNCHANGED << cache_of, made, mappings, mutex, pc, req, algo, hitBefore, views >>
  /\ UNCHANGED histVars
  /\ UNCHANGED heapVars

\* prototype_P hands algo back to its caller, who keeps the view.
ReturnsPresent(t, a) ==
  /\ views' = views \cup {a}
  /\ present' = [present EXCEPT ![kind[t]] = @ \cup {as_string(req[t])}]

\* A caller enters Engine::prototype_P(request, af), which enters
\* cache_of_P->get(request.as_string()) and takes the mutex.
CallAcquire(t, r, k) ==
  /\ Starts(t, k)
  /\ cache_of[k] # NULL
  /\ LockFree(k)
  /\ mutex' = Locked(mutex, k, t)
  /\ pc' = [pc EXCEPT ![t] = "get_locked"]
  /\ op' = [op EXCEPT ![t] = "acquire"]
  /\ kind' = [kind EXCEPT ![t] = k]
  /\ req' = [req EXCEPT ![t] = r]
  /\ algo' = [algo EXCEPT ![t] = NULL]
  /\ hitBefore' = [hitBefore EXCEPT ![t] = as_string(r) \in present[k]]
  /\ acquires' = [acquires EXCEPT ![k][as_string(r)] = @ + 1]
  /\ UNCHANGED << engine, cache_of, made, mappings, views, searches, present, registered >>
  /\ UNCHANGED heapVars

\* get: return search_map(mappings, name), the Mutex_Holder releasing the
\* mutex; prototype_P returns the result when it is not null and goes on to
\* the search otherwise.
GetRead(t) ==
  /\ engine = "alive"
  /\ pc[t] = "get_locked"
  /\ LET a == search_map(mappings[kind[t]], as_string(req[t]))
     IN /\ algo' = [algo EXCEPT ![t] = a]
        /\ pc' = [pc EXCEPT ![t] = AfterGet(a)]
        /\ IF a # NULL
           THEN ReturnsPresent(t, a)
           ELSE UNCHANGED << views, present >>
  /\ mutex' = Released(mutex, kind[t])
  /\ UNCHANGED << engine, cache_of, made, mappings, op, kind, req,
                  hitBefore, calls, kindsUsed, searches, acquires, registered >>
  /\ UNCHANGED heapVars

\* algo = find_P(request, af): a newly constructed instance when the
\* providers can satisfy the request, null otherwise.  A null result is
\* returned; with an instance prototype_P enters
\* cache_of_P->add(algo, request.as_string()), which takes the mutex.
Search(t) ==
  /\ engine = "alive"
  /\ pc[t] = "search"
  /\ searches' = [searches EXCEPT ![kind[t]][as_string(req[t])] = @ + 1]
  /\ IF as_string(req[t]) \in Registry
     THEN /\ LockFree(kind[t])
          /\ mutex' = Locked(mutex, kind[t], t)
          /\ nextId' = nextId + 1
          /\ iname' = [iname EXCEPT ![nextId + 1] = FoundName(as_string(req[t]))]
          /\ ikind' = [ikind EXCEPT ![nextId + 1] = kind[t]]
          /\ algo' = [algo EXCEPT ![t] = nextId + 1]
          /\ pc' = [pc EXCEPT ![t] = "add_locked"]
     ELSE /\ algo' = [algo EXCEPT ![t] = NULL]
          /\ pc' = [pc EXCEPT ![t] = "idle"]
          /\ UNCHANGED << mutex, nextId, iname, ikind >>
  /\ UNCHANGED << engine, cache_of, made, mappings, op, kind, req,
                  hitBefore, views, calls, kindsUsed, acquires, present, registered,
                  destroyed, adds, superseded >>

\* A caller enters Engine::add_algorithm(algo) of the instance's type with
\* an instance that exists and is live; add takes the mutex.
CallRegister(t, k, a) ==
  /\ Starts(t, k)
  /\ cache_of[k] # NULL
  /\ a \in 1..nextId
  /\ destroyed[a] = 0
  /\ ikind[a] = k
  /\ LockFree(k)
  /\ mutex' = Locked(mutex, k, t)
  /\ pc' = [pc EXCEPT ![t] = "add_locked"]
  /\ op' = [op EXCEPT ![t] = "register"]
  /\ kind' = [kind EXCEPT ![t] = k]
  /\ req' = [req EXCEPT ![t] = NoReq]
  /\ algo' = [algo EXCEPT ![t] = a]
  /\ hitBefore' = [hitBefore EXCEPT ![t] = FALSE]
  /\ UNCHANGED << engine, cache_of, made, mappings, views >>
  /\ UNCHANGED histVars
  /\ UNCHANGED heapVars

\* A caller constructs a new instance reporting name n and enters
\* Engine::add_algorithm with it; add takes the mutex.
CallRegisterNew(t, k, n) ==
  /\ Starts(t, k)
  /\ cache_of[k] # NULL
  /\ LockFree(k)
  /\ mutex' = Locked(mutex, k, t)
  /\ nextId' = nextId + 1
  /\ iname' = [iname EXCEPT ![nextId + 1] = n]
  /\ ikind' = [ikind EXCEPT ![nextId + 1] = k]
  /\ pc' = [pc EXCEPT ![t] = "add_locked"]
  /\ op' = [op EXCEPT ![t] = "register"]
  /\ kind' = [kind EXCEPT ![t] = k]
  /\ req' = [req EXCEPT ![t] = NoReq]
  /\ algo' = [algo EXCEPT ![t] = nextId + 1]
  /\ hitBefore' = [hitBefore EXCEPT ![t] = FALSE]
  /\ UNCHANGED << engine, cache_of, made, mappings, views, destroyed, adds, superseded >>
  /\ UNCHANGED histVars

\* Engine::add_algorithm(0): add returns at if(!algo) return; before it
\* takes the mutex.
AddNull(t, k) ==
  /\ Starts(t, k)
  /\ cache_of[k] # NULL
  /\ pc' = [pc EXCEPT ![t] = AfterNullCheck(NULL)]
  /\ IF AfterNullCheck(NULL) = "idle"
     THEN mutex' = mutex
     ELSE LockFree(k) /\ mutex' = Locked(mutex, k, t)
  /\ op' = [op EXCEPT ![t] = "register"]
  /\ kind' = [kind EXCEPT ![t] = k]
  /\ req' = [req EXCEPT ![t] = NoReq]
  /\ algo' = [algo EXCEPT ![t] = NULL]
  /\ hitBefore' = [hitBefore EXCEPT ![t] = FALSE]
  /\ UNCHANGED << engine, cache_of, made, mappings, views >>
  /\ UNCHANGED histVars
  /\ UNCHANGED heapVars

\* ------------------------------------------------ Algorithm_Cache_Impl::add
\* Faulty variant of IndexName: the argument is dropped.
IndexName_Dropped(t) == ""

\* The index_name argument: the request's canonical string from
\* prototype_P, the default "" from add_algorithm.
IndexName(t) == IF op[t] = "acquire" THEN as_string(req[t]) ELSE ""

\* The values (index_name != "" ? index_name : algo->name()) can have: the
\* name a live instance reports; any name when the instance was destroyed.
KeyChoices(t) ==
  IF IndexName(t) # "" THEN { IndexName(t) }
  ELSE IF destroyed[algo[t]] = 0 THEN { iname[algo[t]] }
  ELSE Names

\* add reads the name of a destroyed instance, or deletes a destroyed one.
AddUndefined(t, old) ==
  \/ IndexName(t) = "" /\ destroyed[algo[t]] > 0
  \/ old # NULL /\ destroyed[old] > 0

\* The critical section of add, with the key name:
\*   if(mappings.find(name) != mappings.end()) delete mappings[name];
\*   mappings[name] = algo;
\* then the Mutex_Holder releases the mutex, add returns, and prototype_P
\* returns algo.
AddBody(t) ==
  /\ engine = "alive"
  /\ pc[t] = "add_locked"
  /\ \E n \in KeyChoices(t) :
       LET old == search_map(mappings[kind[t]], n)
       IN \/ /\ destroyed' = Deleted(destroyed, old)
             /\ superseded' = IF old # NULL /\ old # algo[t]
                              THEN superseded \cup {old}
                              ELSE superseded
             /\ mappings' = [mappings EXCEPT ![kind[t]] = MapStore(@, n, algo[t])]
             /\ mutex' = Released(mutex, kind[t])
             /\ adds' = [adds EXCEPT ![algo[t]] = Sat2(@ + 1)]
             /\ registered' = IF op[t] = "register"
                              THEN registered \cup {kind[t]}
                              ELSE registered
             /\ pc' = [pc EXCEPT ![t] = "idle"]
             /\ IF op[t] = "acquire"
                THEN ReturnsPresent(t, algo[t])
                ELSE UNCHANGED << views, present >>
             /\ engine' = IF AddUndefined(t, old) THEN "corrupt" ELSE engine
          \/ /\ AddUndefined(t, old)
             /\ engine' = "aborted"
             /\ UNCHANGED << pc, destroyed, superseded, mappings, mutex, adds, registered,
                             views, present >>
  /\ UNCHANGED << cache_of, made, calls, kindsUsed, nextId, iname, ikind,
                  searches, acquires >>
  /\ UNCHANGED localVars

\* ------------------------------------------------------------------- Next
Next ==
  \/ Initialize
  \/ Destroy
  \/ \E t \in Threads, k \in Kinds : NullDeref(t, k)
  \/ \E t \in Threads, r \in Requests, k \in Kinds : CallAcquire(t, r, k)
  \/ \E t \in Threads : GetRead(t)
  \/ \E t \in Threads : Search(t)
  \/ \E t \in Threads, k \in Kinds, n \in InstNames : CallRegisterNew(t, k, n)
  \/ \E t \in Threads, k \in Kinds, a \in Inst : CallRegister(t, k, a)
  \/ \E t \in Threads, k \in Kinds : AddNull(t, k)
  \/ \E t \in Threads : AddBody(t)

Spec == Init /\ [][Next]_vars

\* Fair scheduling: a thread inside get or add runs on; every find_P call
\* returns, and the thread that comes back from it with an instance gets the
\* mutex once it stays free.  Callers start finitely many calls, so the
\* mutex does stay free in the end and weak fairness is enough.
Fairness ==
  \A t \in Threads :
    /\ WF_vars(GetRead(t))
    /\ WF_vars(Search(t))
    /\ WF_vars(AddBody(t))

FairSpec == Spec /\ Fairness


\* ----------------------------------------------------------------- claims
\* The canonical name of the request of thread t's acquire_P call.
ReqName(t) == as_string(req[t])

\* Thread t leaves the read section of get in this step.
GetReturns(t) == pc[t] = "get_locked" /\ pc'[t] # "get_locked"

\* Thread t leaves the write section of add in this step.
AddReturns(t) == pc[t] = "add_locked" /\ pc'[t] = "idle"

\* An acquire_P call of kind k for name n has started and not returned.
InFlight(k, n) ==
  \E t \in Threads : pc[t] # "idle" /\ op[t] = "acquire" /\ kind[t] = k /\ ReqName(t) = n

\* C1: an acquire_P call that starts after an acquire_P call for the same
\* canonical name returned a present result returns, from get, the instance
\* mapped under that name at that moment, and invokes no search.
C1_CacheHitConsistency ==
  [][\A t \in Threads :
       (op[t] = "acquire" /\ hitBefore[t] /\ GetReturns(t))
         => /\ pc'[t] = "idle"
            /\ algo'[t] # NULL
            /\ [name |-> ReqName(t), inst |-> algo'[t]] \in mappings[kind[t]]
            /\ algo'[t] \in views'
            /\ searches' = searches]_vars

\* Two acquire_P calls for one findable name, one after the other, the
\* search invoked once.
C1_Witness ==
  /\ engine = "alive"
  /\ Idle
  /\ \E t \in Threads :
       /\ op[t] = "acquire" /\ hitBefore[t] /\ algo[t] # NULL
       /\ acquires[kind[t]][ReqName(t)] = 2
       /\ searches[kind[t]][ReqName(t)] = 1

\* C2: a call that finds no entry for its name goes on to the search; a
\* search that finds nothing returns nothing, counts as one more search,
\* and leaves every map as it was.
C2_FailedLookupNotCached ==
  [][\A t \in Threads :
       /\ (GetReturns(t) /\ EntriesOf(mappings[kind[t]], ReqName(t)) = {})
            => pc'[t] = "search"
       /\ (pc[t] = "search" /\ pc'[t] # "search" /\ ReqName(t) \notin Registry)
            => /\ pc'[t] = "idle"
               /\ algo'[t] = NULL
               /\ mappings' = mappings
               /\ views' = views
               /\ present' = present
               /\ searches'[kind[t]][ReqName(t)] = searches[kind[t]][ReqName(t)] + 1]_vars

\* Two acquire_P calls for a name nobody provides have both searched, and
\* there is no entry for it.
C2_Witness ==
  /\ engine = "alive"
  /\ Idle
  /\ \E k \in Kinds :
       /\ searches[k]["NoSuch"] = 2
       /\ acquires[k]["NoSuch"] = 2
       /\ EntriesOf(mappings[k], "NoSuch") = {}

\* C3 (state): an instance inserted once and superseded by another instance
\* is destroyed exactly once and in no map, also after the teardown; a name
\* has at most one entry.
C3_Superseded ==
  /\ \A i \in Inst :
       (i \in superseded /\ adds[i] = 1)
         => /\ destroyed[i] = 1
            /\ \A k \in Kinds : \A e \in mappings[k] : e.inst # i
  /\ \A k \in Kinds : \A n \in Names : Cardinality(EntriesOf(mappings[k], n)) <= 1

\* C3 (step): when register_P of a live instance returns, the one entry
\* under the name the instance reports is that instance.
C3_Registered ==
  \A t \in Threads :
    (AddReturns(t) /\ op[t] = "register" /\ destroyed[algo[t]] = 0)
      => EntriesOf(mappings'[kind[t]], iname[algo[t]])
           = { [name |-> iname[algo[t]], inst |-> algo[t]] }

\* C3: register_P(A) then register_P(B), A and B reporting the same name:
\* one entry under the name, it is B, and A is destroyed exactly once.
C3_OverwriteSafety == []C3_Superseded /\ [][C3_Registered]_vars

\* After the teardown: A and B were registered under one name, B superseded
\* A, and each was destroyed once.
C3_Witness ==
  /\ engine = "destroyed"
  /\ \E a, b \in Inst :
       /\ a # b /\ b <= nextId /\ a <= nextId
       /\ iname[a] = iname[b] /\ ikind[a] = ikind[b]
       /\ \A k \in Kinds : \A n \in Names : searches[k][n] = 0
       /\ a \in superseded /\ b \notin superseded
       /\ adds[a] = 1 /\ adds[b] = 1
       /\ destroyed[a] = 1 /\ destroyed[b] = 1

\* C4: no instance is destroyed twice, whatever was registered and acquired
\* and also counting the teardown.
C4_NoDoubleFree == \A i \in Inst : destroyed[i] <= 1

\* C5: on a live engine the instance of every view a caller holds is not
\* destroyed.
C5_ViewsStayValid == engine = "alive" => \A i \in views : destroyed[i] = 0

\* C6: for every kind and name the searches are at most the acquire_P calls;
\* a present result in a cache nothing was registered into took a search;
\* and once the acquire_P calls for a findable name have returned the cache
\* holds exactly one entry for it.
C6_ConcurrentAcquisition ==
  \A k \in Kinds : \A n \in Names :
    /\ searches[k][n] <= acquires[k][n]
    /\ (n \in present[k] /\ k \notin registered) => searches[k][n] >= 1
    /\ (engine = "alive" /\ acquires[k][n] >= 1 /\ n \in Registry /\ ~InFlight(k, n))
         => Cardinality(EntriesOf(mappings[k], n)) = 1

\* Every thread made one acquire_P call for the same findable name, every
\* one of them searched, all returned, and one entry is left.
C6_Witness ==
  /\ engine = "alive"
  /\ Idle
  /\ \E k \in Kinds :
       /\ acquires[k]["SHA-1"] = NThreads
       /\ searches[k]["SHA-1"] = NThreads
       /\ Cardinality(EntriesOf(mappings[k], "SHA-1")) = 1
       /\ Cardinality(mappings[k]) = 1

\* The key of the add that thread t is in, when no destroyed instance is
\* asked for its name.
AddKey(t) == IF op[t] = "acquire" THEN ReqName(t) ELSE iname[algo[t]]

\* C7: an insertion under one name leaves the entries under the other names
\* of that cache in the map, and leaves their instances as they were.
C7_NameSensitivity ==
  [][\A t \in Threads :
       (AddReturns(t) /\ (op[t] = "acquire" \/ destroyed[algo[t]] = 0))
         => \A e \in mappings[kind[t]] :
              e.name # AddKey(t)
                => /\ e \in mappings'[kind[t]]
                   /\ destroyed'[e.inst] = destroyed[e.inst]]_vars

\* C8: a thread holds the mutex of a cache exactly while it is in the read
\* section of get or the write section of add of that cache; it holds none
\* while it searches and none when the call has returned.
C8_LockScope ==
  \A k \in Kinds : \A t \in Threads :
    (mutex[k] = t) <=> (pc[t] \in {"get_locked", "add_locked"} /\ kind[t] = k)

\* One thread is in the search of a call while another thread holds the
\* mutex of the same cache.
C8_Witness ==
  \E t, u \in Threads :
    /\ t # u
    /\ pc[t] = "search"
    /\ mutex[kind[t]] = u

\* C9: on a live engine every name has at most one entry in a cache and the
\* instance of every entry is not destroyed.
C9_EntryInvariant ==
  engine = "alive" =>
    \A k \in Kinds :
      /\ \A n \in Names : Cardinality(EntriesOf(mappings[k], n)) <= 1
      /\ \A e \in mappings[k] : destroyed[e.inst] = 0

\* C10: a call made while the cache pointer of its kind is null ends in the
\* process being stopped.
C10_UseBeforeInitializeDetected ==
  \A t \in Threads : op[t] = "null" => engine = "aborted"

\* C11: every cache an initialize constructed is one of the four the engine
\* points to: an initialize on an initialized engine replaces no cache, so
\* none becomes unreachable without being destroyed.
C11_InitializeAtMostOnce ==
  \A c \in 1..made : \E k \in Kinds : cache_of[k] = c

\* C12: a register_P call with a null instance returns at once, leaves
\* every map and every instance as it was, and takes no mutex.
C12_AddAbsentNoOp ==
  [][\A t \in Threads :
       (/\ FirstIdle(t) /\ calls' = calls + 1 /\ made' = made
        /\ op'[t] = "register" /\ algo'[t] = NULL)
         => /\ pc'[t] = "idle"
            /\ mappings' = mappings
            /\ destroyed' = destroyed
            /\ mutex' = mutex
            /\ \A k \in Kinds : mutex'[k] # t]_vars

\* register_P(0) has returned on a cache that holds an entry, and the mutex
\* of that cache is free.
C12_Witness ==
  /\ engine = "alive"
  /\ \E t \in Threads :
       /\ pc[t] = "idle" /\ op[t] = "register" /\ algo[t] = NULL
       /\ mappings[kind[t]] # {}
       /\ \A e \in mappings[kind[t]] : destroyed[e.inst] = 0
       /\ LockFree(kind[t])

\* The step neither replaces the caches (initialize) nor tears them down.
CachesKept == made' = made /\ ~(Idle /\ engine' # engine)

\* C13: while a cache lives, a name that has an entry keeps having exactly
\* one, and a get for such a name returns the instance of the entry it
\* reads, which is still the entry when get returns.
C13_AtomicReplacement ==
  [][CachesKept =>
       /\ \A k \in Kinds : \A n \in Names :
            EntriesOf(mappings[k], n) # {}
              => Cardinality(EntriesOf(mappings'[k], n)) = 1
       /\ \A t \in Threads :
            (GetReturns(t) /\ EntriesOf(mappings[kind[t]], ReqName(t)) # {})
              => /\ algo'[t] # NULL
                 /\ [name |-> ReqName(t), inst |-> algo'[t]] \in mappings[kind[t]]
                 /\ [name |-> ReqName(t), inst |-> algo'[t]] \in mappings'[kind[t]]]_vars

\* A get returned the instance that an add put in the place of an earlier
\* instance under the same name.
C13_Witness ==
  /\ engine = "alive"
  /\ \E t \in Threads :
       /\ pc[t] = "idle" /\ op[t] = "acquire" /\ hitBefore[t]
       /\ algo[t] # NULL /\ algo[t] \notin superseded
       /\ [name |-> ReqName(t), inst |-> algo[t]] \in mappings[kind[t]]
       /\ \E j \in superseded : ikind[j] = kind[t] /\ adds[j] = 1 /\ adds[algo[t]] = 1

\* C14: when add returns inside acquire_P the found instance is the entry
\* under the request's canonical string; when it returns inside register_P
\* of a live instance, the instance is the entry under the name it reports;
\* and a get for a name that has an entry returns it with no search.
C14_InsertionKey ==
  [][\A t \in Threads :
       /\ (AddReturns(t) /\ op[t] = "acquire")
            => [name |-> ReqName(t), inst |-> algo[t]] \in mappings'[kind[t]]
       /\ (AddReturns(t) /\ op[t] = "register" /\ destroyed[algo[t]] = 0)
            => [name |-> iname[algo[t]], inst |-> algo[t]] \in mappings'[kind[t]]
       /\ (GetReturns(t) /\ EntriesOf(mappings[kind[t]], ReqName(t)) # {})
            => /\ pc'[t] = "idle"
               /\ searches' = searches
               /\ [name |-> ReqName(t), inst |-> algo'[t]] \in mappings[kind[t]]]_vars

\* An instance that reports "SHA-160" is the entry under the request string
\* "SHA-1" it was found for, and an acquire_P call for the name of a
\* registered instance returned that instance with no search made.
C14_Witness ==
  /\ engine = "alive"
  /\ \E k \in Kinds : \E e \in mappings[k] :
       /\ e.name = "SHA-1" /\ iname[e.inst] = "SHA-160" /\ destroyed[e.inst] = 0
  /\ \E t \in Threads :
       /\ pc[t] = "idle" /\ op[t] = "acquire" /\ algo[t] # NULL
       /\ kind[t] \in registered
       /\ searches[kind[t]][ReqName(t)] = 0
       /\ [name |-> iname[algo[t]], inst |-> algo[t]] \in mappings[kind[t]]

\* C15: when get returns, its result is the instance mapped under the name
\* it was asked for, or null when the map has no such key; no map, no
\* instance and no search count has changed, and nothing was allocated.
C15_GetPureLookup ==
  [][\A t \in Threads :
       GetReturns(t)
         => /\ algo'[t] # NULL
                 => [name |-> ReqName(t), inst |-> algo'[t]] \in mappings[kind[t]]
            /\ algo'[t] = NULL
                 => \A e \in mappings[kind[t]] : e.name # ReqName(t)
            /\ mappings' = mappings
            /\ destroyed' = destroyed
            /\ adds' = adds
            /\ nextId' = nextId
            /\ searches' = searches]_vars

\* The map of a cache holds entries under two names, and an acquire_P call
\* that began after its name was present got the entry under its own name
\* from get.
C15_Witness ==
  /\ engine = "alive"
  /\ Idle
  /\ \E t \in Threads :
       /\ op[t] = "acquire" /\ hitBefore[t] /\ algo[t] # NULL
       /\ Cardinality(mappings[kind[t]]) = 2
       /\ [name |-> ReqName(t), inst |-> algo[t]] \in mappings[kind[t]]
       /\ \A e \in mappings[kind[t]] : destroyed[e.inst] = 0

\* C16: when no call is in progress on an engine initialized once, every
\* instance a search produced or register_P was given is either the value
\* of exactly one entry and not destroyed, or in no entry and destroyed
\* exactly once.
C16_RaceLeaksNothing ==
  (engine = "alive" /\ Idle /\ made <= Len(KindSeq))
    => \A i \in 1..nextId :
         \/ OwnedCount(i) = 1 /\ destroyed[i] = 0
         \/ OwnedCount(i) = 0 /\ destroyed[i] = 1

\* Thread t is in the read section of get or the write section of add of
\* the cache of kind k.
InSection(t, k) == pc[t] \in {"get_locked", "add_locked"} /\ kind[t] = k

\* C17 (state): on a live initialized engine the four cache pointers are
\* set and point to four different caches; the mutex a call of kind k waits
\* for is free whenever no thread is in a section of the cache of kind k.
C17_FourCaches ==
  /\ (engine = "alive" /\ made > 0)
       => /\ \A k \in Kinds : cache_of[k] # NULL
          /\ \A k1, k2 \in Kinds : k1 # k2 => cache_of[k1] # cache_of[k2]
  /\ \A k \in Kinds : (\A t \in Threads : ~InSection(t, k)) => LockFree(k)

\* C17 (step): the first initialize calls mf.make() four times and leaves
\* four empty maps and four free mutexes; an add changes the map of no
\* other cache.
C17_InitializeStep ==
  /\ (made = 0 /\ made' # made)
       => /\ made' = Len(KindSeq)
          /\ \A k \in Kinds : mappings'[k] = {} /\ mutex'[k] = NoThread
  /\ \A t \in Threads :
       AddReturns(t) => \A k \in Kinds : k # kind[t] => mappings'[k] = mappings[k]

\* C17: initialize builds four caches, each with a mutex of its own.
C17_IndependentCaches == []C17_FourCaches /\ [][C17_InitializeStep]_vars

\* Two threads are inside sections of the caches of two kinds at once, each
\* holding the mutex of its cache.
C17_Witness ==
  /\ engine = "alive"
  /\ made = Len(KindSeq)
  /\ \E t, u \in Threads :
       /\ kind[t] # kind[u]
       /\ InSection(t, kind[t]) /\ InSection(u, kind[u])
       /\ mutex[MutexOf(kind[t])] = t /\ mutex[MutexOf(kind[u])] = u

\* C18: once the engine is destroyed, every instance that was produced by a
\* search or given to register_P has been destroyed once, and every cache
\* an initialize constructed is one the destructor deleted, with its mutex.
C18_DestructionComplete ==
  engine = "destroyed"
    => /\ \A i \in 1..nextId : destroyed[i] = 1
       /\ \A c \in 1..made : \E k \in Kinds : cache_of[k] = c

\* C19 (state): a thread that is in no call holds no mutex, and while the
\* engine is alive and a call is in progress some call can take a step.
C19_NoDeadlock ==
  /\ \A t \in Threads : pc[t] = "idle" => \A k \in Kinds : mutex[MutexOf(k)] # t
  /\ (engine = "alive" /\ ~Idle)
       => \E t \in Threads : ENABLED (GetRead(t) \/ Search(t) \/ AddBody(t))

\* C19: under fair scheduling every call that has started returns, unless
\* the process has run into undefined behaviour: again and again no call is
\* in progress.  No call keeps a mutex and no state with a call in progress
\* is a deadlock.
C19_Progress ==
  /\ []C19_NoDeadlock
  /\ []<>(Idle \/ engine # "alive")

\* Every thread is in a call, and one that has come back from the search
\* with an instance to add waits for the mutex another thread holds.
C19_Witness ==
  /\ engine = "alive"
  /\ \A t \in Threads : pc[t] # "idle"
  /\ \E t \in Threads :
       /\ pc[t] = "search"
       /\ ReqName(t) \in Registry
       /\ ~LockFree(kind[t])

\* ------------------------------------------------------------ type check
TypeOK ==
  /\ engine \in {"alive", "destroyed", "aborted", "corrupt"}
  /\ cache_of \in [Kinds -> 0..MaxCache]
  /\ made \in 0..MaxCache
  /\ \A k \in Kinds : \A e \in mappings[k] : e.name \in Names /\ e.inst \in Inst
  /\ mutex \in [Kinds -> Threads \cup {NoThread}]
  /\ nextId \in 0..MaxCalls
  /\ destroyed \in [Inst -> 0..2]
  /\ algo \in [Threads -> Inst \cup {NULL}]
  /\ views \subseteq Inst
  /\ calls \in 0..MaxCalls

====
